---- MODULE Spec2Model ----
(***************************************************************************)
(* Model of the citation-resolution pipeline of most-cited-papers: the     *)
(* URL classifier, the page fetchers, the Scholar search, the SQLite cache *)
(* and the loop of main() that resolves one paper after another.           *)
(*                                                                         *)
(* Go strings are sequences of tokens (a token stands for the run of       *)
(* characters written in it); "" is the empty sequence <<>>.  A Go *int is *)
(* a sequence of length at most one: <<>> is nil and <<n>> points to n.    *)
(* A nullable SQLite INTEGER column is modelled the same way.              *)
(***************************************************************************)
EXTENDS Integers, Sequences, FiniteSets, TLC

(***************************************************************************)
(* Bounds of the model.                                                    *)
(***************************************************************************)
MaxPapers == 2

\* the links, anchors or result entries of a page examined in a single call
MaxLinks == 2

\* the calls of saveCitation in a sequence of calls on one table
MaxSaves == 3

\* the calls of performSearch on one page of the web UI
MaxSearches == 3

(***************************************************************************)
(* strings package                                                         *)
(***************************************************************************)
HasPrefixAt(s, p, k) ==
    /\ k + Len(p) - 1 <= Len(s)
    /\ \A j \in 1..Len(p) : s[k + j - 1] = p[j]

\* strings.Contains(s, substr)
Contains(s, substr) ==
    \E k \in 1..(Len(s) - Len(substr) + 1) : HasPrefixAt(s, substr, k)

\* strings.HasPrefix(s, prefix)
HasPrefix(s, prefix) == HasPrefixAt(s, prefix, 1)

\* strings.TrimPrefix(s, prefix)
TrimPrefix(s, prefix) ==
    IF HasPrefix(s, prefix) THEN SubSeq(s, Len(prefix) + 1, Len(s)) ELSE s

\* strings.TrimSuffix(s, suffix)
TrimSuffix(s, suffix) ==
    IF Len(suffix) <= Len(s) /\ HasPrefixAt(s, suffix, Len(s) - Len(suffix) + 1)
    THEN SubSeq(s, 1, Len(s) - Len(suffix))
    ELSE s

\* index of the first occurrence of old in s, 0 when there is none
Index(s, old) ==
    IF Contains(s, old)
    THEN CHOOSE k \in 1..(Len(s) - Len(old) + 1) :
            /\ HasPrefixAt(s, old, k)
            /\ \A m \in 1..(k - 1) : ~HasPrefixAt(s, old, m)
    ELSE 0

\* strings.Replace(s, old, new, 1)
ReplaceFirst(s, old, new) ==
    IF Index(s, old) = 0 THEN s
    ELSE SubSeq(s, 1, Index(s, old) - 1) \o new
            \o SubSeq(s, Index(s, old) + Len(old), Len(s))

(***************************************************************************)
(* URL classifier (arxiv.go, acl.go)                                       *)
(***************************************************************************)
\* the characters of the class [0-9v.] of the arXiv id pattern
IdChars == {"2301", "1", "2", "v", "."}

IsArxivURL(url) == Contains(url, <<"arxiv.org">>)

IsArxivPDF(url) == Contains(url, <<"arxiv.org", "/pdf">>)

IsACLURL(url) == Contains(url, <<"aclanthology.org">>)

\* the conversion without the removal of the extension
ConvertPDFtoAbsURLKeepsExt(pdfURL) ==
    ReplaceFirst(pdfURL, <<"/pdf", "/">>, <<"/abs", "/">>)

ConvertPDFtoAbsURL(pdfURL) ==
    TrimSuffix(ReplaceFirst(pdfURL, <<"/pdf", "/">>, <<"/abs", "/">>), <<".", "pdf">>)

\* the longest run of characters of IdChars that starts at position k
RECURSIVE IdRun(_, _)
IdRun(s, k) ==
    IF k <= Len(s) /\ s[k] \in IdChars THEN <<s[k]>> \o IdRun(s, k + 1) ELSE <<>>

\* FindStringSubmatch of arxiv\.org/(?:abs|pdf)/([0-9v.]+) with paths the
\* alternatives of the group: the capture of the leftmost match, <<>> if none
IdSubmatch(s, paths) ==
    LET hits == {k \in 1..Len(s) :
                    /\ k + 3 <= Len(s)
                    /\ s[k] = "arxiv.org"
                    /\ s[k + 1] \in paths
                    /\ s[k + 2] = "/"
                    /\ s[k + 3] \in IdChars}
    IN IF hits = {} THEN <<>>
       ELSE IdRun(s, 3 + CHOOSE k \in hits : \A m \in hits : k <= m)

GetArxivID(arxivURL) == IdSubmatch(arxivURL, {"/abs", "/pdf"})

GetDirectScholarURL(arxivID) ==
    <<"https://", "scholar.google", ".com", "/scholar?q=arxiv:">> \o arxivID

(***************************************************************************)
(* Text helpers of the scrapers                                            *)
(***************************************************************************)
\* strings.TrimSpace(s)
RECURSIVE TrimLeft(_)
TrimLeft(s) == IF s # <<>> /\ Head(s) = " " THEN TrimLeft(Tail(s)) ELSE s

RECURSIVE TrimRight(_)
TrimRight(s) ==
    IF s # <<>> /\ s[Len(s)] = " " THEN TrimRight(SubSeq(s, 1, Len(s) - 1)) ELSE s

TrimSpace(s) == TrimRight(TrimLeft(s))

\* Selection.Text(): the texts of the selected elements, concatenated
RECURSIVE Text(_)
Text(sel) == IF sel = <<>> THEN <<>> ELSE Head(sel) \o Text(Tail(sel))

\* strings.ReplaceAll(s, c, "") for a one-character c
RECURSIVE RemoveAll(_, _)
RemoveAll(s, c) ==
    IF s = <<>> THEN <<>>
    ELSE IF Head(s) = c THEN RemoveAll(Tail(s), c)
    ELSE <<Head(s)>> \o RemoveAll(Tail(s), c)

\* strings.Split(s, sep) for a separator that is one token
RECURSIVE Split(_, _)
Split(s, sep) ==
    IF \A k \in 1..Len(s) : s[k] # sep THEN <<s>>
    ELSE LET k == CHOOSE k \in 1..Len(s) :
                    s[k] = sep /\ \A m \in 1..(k - 1) : s[m] # sep
         IN <<SubSeq(s, 1, k - 1)>> \o Split(SubSeq(s, k + 1, Len(s)), sep)

\* strings.ToLower(s)
LowerTok(c) ==
    CASE c = "Graph" -> "graph"
      [] c = "Language" -> "language"
      [] c = "Models" -> "models"
      [] c = "Survey" -> "survey"
      [] OTHER -> c

ToLower(s) == [k \in 1..Len(s) |-> LowerTok(s[k])]

\* url.QueryEscape(s)
EscapeTok(c) ==
    CASE c = " " -> "+"
      [] c = "\"" -> "%22"
      [] c = "," -> "%2C"
      [] c = " - " -> "+-+"
      [] c = "and " -> "and+"
      [] c = "et al." -> "et+al."
      [] c = " author:" -> "+author%3A"
      [] OTHER -> c

QueryEscape(s) == [k \in 1..Len(s) |-> EscapeTok(s[k])]

\* strconv.Atoi(s): <<n>> when s is a decimal number, <<>> when Atoi fails
Digits == {"0", "3", "7"}

DigitValue(d) == CASE d = "0" -> 0 [] d = "3" -> 3 [] d = "7" -> 7

Atoi(s) == IF Len(s) = 1 /\ s[1] \in Digits THEN <<DigitValue(s[1])>> ELSE <<>>

\* fmt.Sprintf("%d", n) for the counts of the model
Itoa(n) == CASE n = 0 -> <<"0">> [] n = 3 -> <<"3">> [] n = 7 -> <<"7">>

\* the "Cited by N" scan over the link texts of a selection: every link whose
\* text parses overwrites citationPtr, so the last one that parses remains
RECURSIVE CitedByScan(_, _)
CitedByScan(links, citationPtr) ==
    IF links = <<>> THEN citationPtr
    ELSE LET text  == Head(links)
             count == Atoi(TrimPrefix(text, <<"Cited by", " ">>))
         IN CitedByScan(Tail(links),
                IF HasPrefix(text, <<"Cited by">>) /\ count # <<>>
                THEN count ELSE citationPtr)

(***************************************************************************)
(* HTTP responses.  status 0 stands for a failed client.Do (no response);  *)
(* body is the parsed document, read only when the status is 200.          *)
(***************************************************************************)
Statuses == {0, 200, 429, 500}

Resp(status, body) == [status |-> status, body |-> body]

\* what a fetcher hands to its caller: fatal is log.Fatalf (the process ends
\* inside the call and nothing is returned), err a non-nil error
Ret(val, err, fatal) == [val |-> val, err |-> err, fatal |-> fatal]

(***************************************************************************)
(* arxiv.go: GetArxivSummary.  body.abstract holds the text of the         *)
(* blockquote.abstract.mathjax elements, descriptor span removed.          *)
(***************************************************************************)
GetArxivSummary(resp) ==
    IF resp.status = 0 THEN Ret(<<>>, TRUE, FALSE)
    ELSE IF resp.status # 200 THEN Ret(<<>>, TRUE, FALSE)
    ELSE IF Len(resp.body.abstract) > 0
         THEN Ret(TrimSpace(Text(resp.body.abstract)), FALSE, FALSE)
         ELSE Ret(<<>>, TRUE, FALSE)

(***************************************************************************)
(* google_scholar.go: GetGoogleScholarURL.  body.anchors are the <a>       *)
(* elements of the page in document order: class, and href (<<>> when the  *)
(* attribute is missing, <<url>> otherwise).                               *)
(***************************************************************************)
\* doc.Find(selector).Attr("href"): the href of the first selected element,
\* hits being the indices of the elements the selector selects
FirstAttr(anchors, hits) ==
    IF hits = {} THEN <<>>
    ELSE anchors[CHOOSE k \in hits : \A m \in hits : k <= m].href

HrefContains(a, substr) == a.href # <<>> /\ Contains(a.href[1], substr)

\* a[href*='scholar.google.com']
SelScholarCom(anchors) ==
    {k \in 1..Len(anchors) : HrefContains(anchors[k], <<"scholar.google", ".com">>)}

\* a.gs
SelGs(anchors) == {k \in 1..Len(anchors) : anchors[k].class = "gs"}

\* a[href*='scholar.google']
SelScholar(anchors) ==
    {k \in 1..Len(anchors) : HrefContains(anchors[k], <<"scholar.google">>)}

\* the selector chain with the a.gs pattern tried first
ScholarLinkGsFirst(anchors) ==
    IF FirstAttr(anchors, SelGs(anchors)) # <<>>
    THEN FirstAttr(anchors, SelGs(anchors))
    ELSE IF FirstAttr(anchors, SelScholarCom(anchors)) # <<>>
    THEN FirstAttr(anchors, SelScholarCom(anchors))
    ELSE FirstAttr(anchors, SelScholar(anchors))

\* the selector chain of GetGoogleScholarURL, in its order
ScholarLink(anchors) ==
    IF FirstAttr(anchors, SelScholarCom(anchors)) # <<>>
    THEN FirstAttr(anchors, SelScholarCom(anchors))
    ELSE IF FirstAttr(anchors, SelGs(anchors)) # <<>>
    THEN FirstAttr(anchors, SelGs(anchors))
    ELSE FirstAttr(anchors, SelScholar(anchors))

GetGoogleScholarURL(paperURL, resp) ==
    IF resp.status = 0 THEN Ret(<<>>, TRUE, FALSE)
    ELSE IF resp.status = 429 THEN Ret(<<>>, FALSE, TRUE)
    ELSE IF resp.status # 200 THEN Ret(<<>>, TRUE, FALSE)
    ELSE IF ScholarLink(resp.body.anchors) # <<>>
         THEN Ret(ScholarLink(resp.body.anchors)[1], FALSE, FALSE)
    ELSE IF Contains(paperURL, <<"arxiv.org">>) /\ IdSubmatch(paperURL, {"/abs"}) # <<>>
         THEN Ret(GetDirectScholarURL(IdSubmatch(paperURL, {"/abs"})), FALSE, FALSE)
    ELSE Ret(<<>>, FALSE, FALSE)

(***************************************************************************)
(* google_scholar.go: FetchCitationsFromScholar.  body.fl are the texts of *)
(* the ".gs_fl a" links of the page in document order.                     *)
(***************************************************************************)
FetchCitationsFromScholar(resp) ==
    IF resp.status = 0 THEN Ret(<<>>, FALSE, FALSE)
    ELSE IF resp.status = 429 THEN Ret(<<>>, FALSE, TRUE)
    ELSE IF resp.status # 200 THEN Ret(<<>>, FALSE, FALSE)
    ELSE Ret(CitedByScan(resp.body.fl, <<>>), FALSE, FALSE)

(***************************************************************************)
(* acl.go: GetACLInfo and its two wrappers.  body.abstract as above,       *)
(* body.lead the texts of the "p.lead a" links.                            *)
(***************************************************************************)
RECURSIVE LeadAuthors(_)
LeadAuthors(lead) ==
    IF lead = <<>> THEN <<>>
    ELSE IF TrimSpace(Head(lead)) # <<>>
         THEN <<TrimSpace(Head(lead))>> \o LeadAuthors(Tail(lead))
         ELSE LeadAuthors(Tail(lead))

\* val is the pair [abstract, authors]
GetACLInfo(resp) ==
    IF resp.status = 0 THEN Ret([abstract |-> <<>>, authors |-> <<>>], TRUE, FALSE)
    ELSE IF resp.status = 429 THEN Ret([abstract |-> <<>>, authors |-> <<>>], FALSE, TRUE)
    ELSE IF resp.status # 200 THEN Ret([abstract |-> <<>>, authors |-> <<>>], TRUE, FALSE)
    ELSE LET abstract == IF Len(resp.body.abstract) > 0
                         THEN TrimSpace(Text(resp.body.abstract)) ELSE <<>>
             authors  == LeadAuthors(resp.body.lead)
         IN IF Len(authors) = 0
            THEN Ret([abstract |-> abstract, authors |-> <<>>], TRUE, FALSE)
            ELSE Ret([abstract |-> abstract, authors |-> authors], FALSE, FALSE)

GetACLAbstract(resp) ==
    Ret(GetACLInfo(resp).val.abstract, GetACLInfo(resp).err, GetACLInfo(resp).fatal)

GetACLAuthors(resp) ==
    Ret(GetACLInfo(resp).val.authors, GetACLInfo(resp).err, GetACLInfo(resp).fatal)

(***************************************************************************)
(* main.go: the author-from-title heuristic of processNonArxivPaper        *)
(***************************************************************************)
RECURSIVE AuthorList(_)
AuthorList(authorList) ==
    IF authorList = <<>> THEN <<>>
    ELSE LET author == TrimPrefix(TrimSpace(Head(authorList)), <<"and ">>)
         IN IF author # <<>>
            THEN <<author>> \o AuthorList(Tail(authorList))
            ELSE AuthorList(Tail(authorList))

AuthorsFromTitle(title) ==
    LET titleParts == Split(title, " - ")
        authorPart == titleParts[1]
    IN IF Len(titleParts) > 1
       THEN IF Contains(authorPart, <<"et al.">>)
            THEN <<TrimSpace(RemoveAll(authorPart, "et al."))>>
            ELSE AuthorList(Split(authorPart, ","))
       ELSE <<>>

(***************************************************************************)
(* google_scholar.go: SearchGoogleScholar.  body.entries are the ".gs_ri"  *)
(* blocks of the result page in document order; of each: rt the texts of   *)
(* its ".gs_rt" elements, fl the texts of its ".gs_fl a" links, snp the    *)
(* texts of its ".gs_fma_snp" elements, hrefs the href of each ".gs_rt a"  *)
(* (<<>> when the attribute is missing).                                   *)
(***************************************************************************)
SearchQuery(title, authors) ==
    <<"\"">> \o title \o <<"\"">>
        \o (IF Len(authors) > 0
            THEN <<" author:", "\"">> \o authors[1] \o <<"\"">>
            ELSE <<>>)

SearchURL(title, authors) ==
    <<"https://", "scholar.google", ".com", "/scholar?q=">>
        \o QueryEscape(SearchQuery(title, authors))

CleanTitle(t) == ToLower(TrimSpace(RemoveAll(t, "\"")))

TitlesMatch(resultTitle, title) ==
    \/ Contains(CleanTitle(resultTitle), CleanTitle(title))
    \/ Contains(CleanTitle(title), CleanTitle(resultTitle))

\* the last element of a selection that the Each callback assigns from
RECURSIVE LastSnippet(_, _)
LastSnippet(snp, abstract) ==
    IF snp = <<>> THEN abstract
    ELSE LastSnippet(Tail(snp), TrimSpace(Head(snp)))

RECURSIVE LastHref(_, _)
LastHref(hrefs, bestMatchURL) ==
    IF hrefs = <<>> THEN bestMatchURL
    ELSE LastHref(Tail(hrefs),
            IF Head(hrefs) # <<>> THEN Head(hrefs)[1] ELSE bestMatchURL)

\* the scan that never stops: the last matching entry remains
MatchIndexLast(entries, title) ==
    LET hits == {k \in 1..Len(entries) :
                    TitlesMatch(TrimSpace(Text(entries[k].rt)), title)}
    IN IF hits = {} THEN 0 ELSE CHOOSE k \in hits : \A m \in hits : k >= m

\* the index of the entry results.Each stops at, 0 when no entry matches
MatchIndex(entries, title) ==
    LET hits == {k \in 1..Len(entries) :
                    TitlesMatch(TrimSpace(Text(entries[k].rt)), title)}
    IN IF hits = {} THEN 0 ELSE CHOOSE k \in hits : \A m \in hits : k <= m

\* the scan reading snippet and link of the first entry before the title test
ScanResultsUntested(entries, title) ==
    LET k == MatchIndex(entries, title)
        j == IF k = 0 /\ Len(entries) > 0 THEN 1 ELSE k
    IN IF j = 0
       THEN [citationPtr |-> <<>>, abstract |-> <<>>, bestMatchURL |-> <<>>,
             foundMatch |-> FALSE]
       ELSE [citationPtr |-> IF k = 0 THEN <<>> ELSE CitedByScan(entries[k].fl, <<>>),
             abstract |-> LastSnippet(entries[j].snp, <<>>),
             bestMatchURL |-> LastHref(entries[j].hrefs, <<>>),
             foundMatch |-> k # 0]

\* the locals of SearchGoogleScholar after the scan of the result page
ScanResults(entries, title) ==
    LET k == MatchIndex(entries, title)
    IN IF k = 0
       THEN [citationPtr |-> <<>>, abstract |-> <<>>, bestMatchURL |-> <<>>,
             foundMatch |-> FALSE]
       ELSE [citationPtr |-> CitedByScan(entries[k].fl, <<>>),
             abstract |-> LastSnippet(entries[k].snp, <<>>),
             bestMatchURL |-> LastHref(entries[k].hrefs, <<>>),
             foundMatch |-> TRUE]

\* SearchGoogleScholar up to its return or to the request for the matched
\* entry's own page: val holds searchURL, citationPtr, abstract and whether
\* that second request is made
SearchGoogleScholar(title, authors, resp) ==
    LET searchURL == SearchURL(title, authors)
        none == [searchURL |-> searchURL, citationPtr |-> <<>>,
                 abstract |-> <<>>, fetchPage |-> FALSE]
    IN IF resp.status = 0 THEN Ret(none, FALSE, FALSE)
       ELSE IF resp.status = 429 THEN Ret(none, FALSE, TRUE)
       ELSE IF resp.status # 200 THEN Ret(none, FALSE, FALSE)
       ELSE LET r == ScanResults(resp.body.entries, title)
            IN Ret([searchURL |-> IF r.bestMatchURL # <<>>
                                  THEN r.bestMatchURL ELSE searchURL,
                    citationPtr |-> r.citationPtr,
                    abstract |-> r.abstract,
                    fetchPage |-> r.foundMatch /\ r.citationPtr = <<>>
                                    /\ r.bestMatchURL # <<>>],
                   FALSE, FALSE)

(***************************************************************************)
(* main.go: the SQLite cache.  A row of paper_cache is a record; the table *)
(* maps each url (PRIMARY KEY) to <<>> (no row) or <<row>>.                *)
(***************************************************************************)
NewPaper(title, url) ==
    [Title |-> title, URL |-> url, ArxivAbsURL |-> <<>>,
     GoogleScholarURL |-> <<>>, ArxivSummary |-> <<>>, Citations |-> 0]

\* the value saveCitation binds to the citations column: NULL is <<>>
CitationValue(paper) ==
    IF paper.Citations # 0 THEN <<paper.Citations>> ELSE <<>>

CacheRow(paper) ==
    [title |-> paper.Title,
     citations |-> CitationValue(paper),
     arxiv_abs_url |-> paper.ArxivAbsURL,
     google_scholar_url |-> paper.GoogleScholarURL,
     arxiv_summary |-> paper.ArxivSummary]

\* saveCitation as INSERT OR IGNORE: a row that exists stays
saveCitationIgnore(table, paper) ==
    IF table[paper.URL] # <<>> THEN table
    ELSE [table EXCEPT ![paper.URL] = <<CacheRow(paper)>>]

\* saveCitation that skips a paper without a citation count
saveCitationFoundOnly(table, paper) ==
    IF paper.Citations # 0
    THEN [table EXCEPT ![paper.URL] = <<CacheRow(paper)>>]
    ELSE table

\* INSERT OR REPLACE INTO paper_cache
saveCitation(table, paper) == [table EXCEPT ![paper.URL] = <<CacheRow(paper)>>]

\* the lookup that finds no row
getCitationMiss(table, url) == <<>>

\* SELECT ... WHERE url = ?: <<>> is the nil *Paper of sql.ErrNoRows
getCitation(table, url) ==
    IF table[url] = <<>> THEN <<>>
    ELSE LET row == table[url][1]
         IN <<[Title |-> row.title, URL |-> url,
               ArxivAbsURL |-> row.arxiv_abs_url,
               GoogleScholarURL |-> row.google_scholar_url,
               ArxivSummary |-> row.arxiv_summary,
               Citations |-> IF row.citations # <<>> THEN row.citations[1] ELSE 0]>>

(***************************************************************************)
(* main.go: the decisions of main and the report                           *)
(***************************************************************************)
\* the cache read without the test of the flag
ConsultCacheAlways(forceFlag) == TRUE

\* main: "if !*force" before cache.getCitation
ConsultCache(forceFlag) == ~forceFlag

\* the test of the cached paper with the flag inverted
UseCachedInverted(cached, forceFlag) == cached # <<>> /\ forceFlag

\* main: "if cached != nil && !*force"
UseCached(cached, forceFlag) == cached # <<>> /\ ~forceFlag

\* main: "IsArxivURL(url) && !IsArxivPDF(url)"
FollowLinks(url) == IsArxivURL(url) /\ ~IsArxivPDF(url)

\* the less function handed to sort.Slice
Less(a, b) ==
    IF a.Citations = 0 /\ b.Citations = 0 THEN FALSE
    ELSE IF a.Citations = 0 THEN FALSE
    ELSE IF b.Citations = 0 THEN TRUE
    ELSE a.Citations > b.Citations

\* the orders sort.Slice may leave the slice in: sort.Slice is not stable,
\* so elements that Less does not order may come out in any order
SortResults(ps) ==
    {[k \in 1..Len(ps) |-> ps[f[k]]] :
        f \in {g \in [1..Len(ps) -> 1..Len(ps)] :
                /\ \A x, y \in 1..Len(ps) : x # y => g[x] # g[y]
                /\ \A x, y \in 1..Len(ps) : x < y => ~Less(ps[g[y]], ps[g[x]])}}

\* the value printed after "Citations: "
DisplayCitations(paper) ==
    IF paper.Citations # 0 THEN Itoa(paper.Citations) ELSE <<"N/A">>

ReportLine(paper) ==
    [Title |-> paper.Title, URL |-> paper.URL,
     Citations |-> DisplayCitations(paper),
     arXiv |-> paper.ArxivAbsURL, Scholar |-> paper.GoogleScholarURL]

\* the merge that assigns whatever the search returned
MergeSearchOverwrite(paper, searchURL, citationPtr, scholarAbstract) ==
    [paper EXCEPT
        !.GoogleScholarURL = searchURL,
        !.Citations = IF citationPtr # <<>> THEN citationPtr[1] ELSE 0,
        !.ArxivSummary = IF scholarAbstract # <<>> THEN scholarAbstract ELSE @]

\* processNonArxivPaper: the merge of the search result into the paper
MergeSearch(paper, searchURL, citationPtr, scholarAbstract) ==
    [paper EXCEPT
        !.GoogleScholarURL = searchURL,
        !.Citations = IF citationPtr # <<>> THEN citationPtr[1] ELSE @,
        !.ArxivSummary = IF @ = <<>> /\ scholarAbstract # <<>>
                         THEN scholarAbstract ELSE @]

\* processArxivPaper, the branch taken when GetGoogleScholarURL returned an
\* error: the URL is stored and nil is returned (err is the error returned)
ArxivLinkFailed(paper, scholarURL) ==
    [paper |-> [paper EXCEPT !.GoogleScholarURL = scholarURL], err |-> FALSE]

\* processArxivPaper: the Scholar URL to fetch, <<>> when none can be had
\* (processArxivPaper then returns an error)
ResolveScholarURL(scholarURL, arxivAbsURL) ==
    IF scholarURL = <<>>
    THEN IF GetArxivID(arxivAbsURL) # <<>>
         THEN GetDirectScholarURL(GetArxivID(arxivAbsURL))
         ELSE <<>>
    ELSE scholarURL

(***************************************************************************)
(* The inputs of the model: the papers of the markdown file and the pages  *)
(* the sites answer with.                                                  *)
(***************************************************************************)
ArxivAbs == <<"https://", "arxiv.org", "/abs", "/", "2301", ".", "1">>
ArxivPdf == <<"https://", "arxiv.org", "/pdf", "/", "2301", ".", "1", ".", "pdf">>
ArxivList == <<"https://", "arxiv.org", "/list", "/", "cs">>
AclPage == <<"https://", "aclanthology.org", "/", "2024.acl-long.245", "/">>
OtherPage == <<"https://", "example.com", "/", "paper">>

GraphTitle == <<"Graph", " ", "Language", " ", "Models">>
SurveyTitle == <<"Lee", " ", "et al.", " - ", "Survey">>

PaperPool ==
    {[Title |-> GraphTitle, URL |-> ArxivAbs],
     [Title |-> GraphTitle, URL |-> ArxivPdf],
     [Title |-> SurveyTitle, URL |-> ArxivList],
     [Title |-> GraphTitle, URL |-> AclPage],
     [Title |-> SurveyTitle, URL |-> OtherPage]}

URLs == {p.URL : p \in PaperPool}

Inputs == UNION {[1..n -> PaperPool] : n \in 1..MaxPapers}

CitesLink == <<"https://", "scholar.google", ".com", "/scholar?cites=1">>
EntryLink == <<"https://", "example.com", "/", "entry">>

CitedBy(d) == <<"Cited by", " ", d>>

Failures == {Resp(0, <<>>), Resp(429, <<>>), Resp(500, <<>>)}

Pages(bodies) == Failures \cup {Resp(200, b) : b \in bodies}

AbstractBodies == {[abstract |-> <<>>], [abstract |-> <<<<" ", "Abs", " ">>>>]}

AnchorBodies ==
    {[anchors |-> <<>>],
     [anchors |-> <<[class |-> "", href |-> <<CitesLink>>]>>]}

ScholarBodies ==
    {[fl |-> <<>>],
     [fl |-> <<<<"Cite">>, CitedBy("0")>>],
     [fl |-> <<CitedBy("3"), <<"Related articles">>>>]}

AclBodies ==
    {[abstract |-> <<>>, lead |-> <<>>],
     [abstract |-> <<<<"Abs">>>>, lead |-> <<>>],
     [abstract |-> <<<<"Abs">>>>, lead |-> <<<<"Plenz">>, <<" ">>>>]}

Entry(rt, fl, snp, hrefs) == [rt |-> rt, fl |-> fl, snp |-> snp, hrefs |-> hrefs]

SearchBodies ==
    {[entries |-> <<>>],
     [entries |-> <<Entry(<<<<"Other">>>>, <<CitedBy("7")>>, <<>>, <<<<EntryLink>>>>)>>],
     [entries |-> <<Entry(<<<<"graph", " ", "language", " ", "models">>>>,
                          <<CitedBy("3")>>, <<<<"Snip">>>>, <<<<EntryLink>>>>)>>],
     [entries |-> <<Entry(<<<<"Survey">>>>, <<CitedBy("0")>>, <<>>, <<>>)>>],
     [entries |-> <<Entry(<<<<"Survey">>>>, <<<<"Cite">>>>, <<<<"Snip">>>>, <<<<EntryLink>>>>),
                    Entry(<<GraphTitle>>, <<>>, <<>>, <<<<EntryLink>>>>)>>]}

(***************************************************************************)
(* The state of a run of main().                                           *)
(*   input   the papers parseMarkdownPapers yields (the file is the same   *)
(*           in every run)                                                 *)
(*   force   the -force flag of the run                                    *)
(*   papers  the slice main works on                                       *)
(*   i       the index of the loop over papers (1-based)                   *)
(*   pc      where main stands: "loop" at the top of an iteration, the     *)
(*           name of the request about to be issued, "save", "done" after  *)
(*           the report, "exited" after log.Fatalf                         *)
(*   lv      the locals that live across a request: authors,               *)
(*           and searchURL, abstract of SearchGoogleScholar                *)
(*   cache   the paper_cache table, kept from run to run                   *)
(*   report  the lines printed                                             *)
(* and, to state properties, what the run did:                             *)
(*   hist    per paper of the input: whether paper_cache held a row for    *)
(*           its URL when main took it up, whether its URL had been        *)
(*           resolved over the network before, whether a request was       *)
(*           issued for it, and the citation pointer its resolution        *)
(*           produced (<<>> for nil)                                       *)
(*   cur     of the paper main is working on: the requests issued so far,  *)
(*           whether the cache was read, whether GetGoogleScholarURL       *)
(*           returned an error, whether processNonArxivPaper was entered   *)
(*           as the fallback of processArxivPaper                          *)
(*   net     the last call of a fetcher (op is "" when none is pending     *)
(*           examination), whether a 429 was answered in this run and      *)
(*           whether a request was issued after it                         *)
(*   everNet the URLs resolved over the network in this or an earlier run  *)
(* and, for the functions examined one call at a time:                     *)
(*   eval    the last call: the function, its arguments and what it        *)
(*           returned (fn is "" in a run of main)                          *)
(* and, for the page of the web UI (script.js):                            *)
(*   ui      the search input, the query of the pending debounce timer,    *)
(*           the queries performSearch was called with, the calls whose    *)
(*           fetch is not settled yet, whether a fetch failed, and what    *)
(*           the table body and the pagination container show              *)
(***************************************************************************)
VARIABLES input, force, papers, i, pc, lv, cache, report, hist, cur, net, everNet,
          eval, ui

vars ==
    <<input, force, papers, i, pc, lv, cache, report, hist, cur, net, everNet, eval,
      ui>>

NoLocals == [authors |-> <<>>, searchURL |-> <<>>, abstract |-> <<>>]

NoHist == [hadRow |-> FALSE, seenBefore |-> FALSE, requested |-> FALSE, ptr |-> <<>>]

NoCur == [reqs |-> 0, consulted |-> FALSE, linkErr |-> FALSE, fellBack |-> FALSE]

NoCall == [op |-> "", status |-> 0, err |-> FALSE, fatal |-> FALSE]

NoNet == [call |-> NoCall, seen429 |-> FALSE, after429 |-> FALSE]

NoEval == [fn |-> "", arg |-> <<>>, out |-> <<>>]

\* what an element of the page shows: the page as the server rendered it,
\* the loading row, the rows or links rendered from the response for a
\* query, or the error row
Shown(kind, query) == [kind |-> kind, query |-> query]

\* the page after DOMContentLoaded, opened without a query
NoUi ==
    [value |-> "", timer |-> <<>>, calls |-> <<>>, pending |-> {}, failed |-> FALSE,
     tbody |-> Shown("page", ""), pagination |-> Shown("page", "")]

ParsedPapers(in) == [k \in 1..Len(in) |-> NewPaper(in[k].Title, in[k].URL)]

\* a paper as an earlier run cached it when its Scholar page showed
\* "Cited by 7"
PriorPaper(in) ==
    [NewPaper(in.Title, in.URL) EXCEPT
        !.ArxivAbsURL = IF IsArxivURL(in.URL)
                        THEN IF IsArxivPDF(in.URL)
                             THEN ConvertPDFtoAbsURL(in.URL) ELSE in.URL
                        ELSE <<>>,
        !.GoogleScholarURL = IF FollowLinks(in.URL) THEN CitesLink ELSE EntryLink,
        !.ArxivSummary = <<"Old">>,
        !.Citations = 7]

EmptyCache == [u \in URLs |-> <<>>]

\* the table an earlier run over the same file left behind
PriorCache(in) ==
    [u \in URLs |->
        IF \E k \in 1..Len(in) : in[k].URL = u
        THEN <<CacheRow(PriorPaper(in[CHOOSE k \in 1..Len(in) : in[k].URL = u]))>>
        ELSE <<>>]

Init ==
    /\ input \in Inputs
    /\ force \in BOOLEAN
    /\ papers = ParsedPapers(input)
    /\ i = 1
    /\ pc = "loop"
    /\ lv = NoLocals
    /\ cache \in {EmptyCache, PriorCache(input)}
    /\ report = <<>>
    /\ hist = [k \in 1..Len(input) |-> NoHist]
    /\ cur = NoCur
    /\ net = NoNet
    /\ everNet = {u \in URLs : cache[u] # <<>>}
    /\ eval = NoEval
    /\ ui = NoUi

(***************************************************************************)
(* The steps of main().  One action per request or cache access; the code  *)
(* between two requests belongs to the action of the first.                *)
(***************************************************************************)
\* the record of a call of fetcher op that was answered with resp
Called(op, resp, ret) ==
    [call |-> [op |-> op, status |-> resp.status, err |-> ret.err, fatal |-> ret.fatal],
     seen429 |-> net.seen429 \/ resp.status = 429,
     after429 |-> net.after429 \/ net.seen429]

Requested(c) == [c EXCEPT !.reqs = @ + 1]

\* processNonArxivPaper from "Get authors" to the call of SearchGoogleScholar
AfterAbstract(paper) ==
    IF IsACLURL(paper.URL)
    THEN [paper |-> paper, pc |-> "GetACLAuthors", authors |-> <<>>]
    ELSE [paper |-> paper, pc |-> "SearchGoogleScholar",
          authors |-> AuthorsFromTitle(paper.Title)]

\* processNonArxivPaper from its entry to its first request
EnterNonArxiv(paper) ==
    IF IsArxivURL(paper.URL)
    THEN LET p == [paper EXCEPT !.ArxivAbsURL =
                        IF IsArxivPDF(paper.URL)
                        THEN ConvertPDFtoAbsURL(paper.URL) ELSE paper.URL]
         IN IF p.ArxivAbsURL # <<>>
            THEN [paper |-> p, pc |-> "GetArxivSummary", authors |-> <<>>]
            ELSE AfterAbstract(p)
    ELSE IF IsACLURL(paper.URL)
         THEN [paper |-> paper, pc |-> "GetACLAbstract", authors |-> <<>>]
         ELSE AfterAbstract(paper)

\* the assignment of a fetched summary
WithSummary(paper, ret) ==
    IF ~ret.err /\ ret.val # <<>> THEN [paper EXCEPT !.ArxivSummary = ret.val]
    ELSE paper

\* the paper resolved by a request: ptr is the citation pointer the request
\* produced
Goto(paper, nextPc, locals, c, ptr, call) ==
    /\ papers' = [papers EXCEPT ![i] = paper]
    /\ pc' = nextPc
    /\ lv' = locals
    /\ cur' = c
    /\ hist' = [hist EXCEPT ![i] =
                    [@ EXCEPT !.requested = c.reqs > 0,
                              !.ptr = IF ptr # <<>> THEN ptr ELSE @]]
    /\ net' = call
    /\ UNCHANGED <<ui, eval, input, force, i, cache, report, everNet>>

\* log.Fatalf inside a fetcher: the process ends
Fatal(c, call) ==
    /\ pc' = "exited"
    /\ cur' = c
    /\ hist' = [hist EXCEPT ![i] = [@ EXCEPT !.requested = TRUE]]
    /\ net' = call
    /\ UNCHANGED <<ui, eval, input, force, papers, i, lv, cache, report, everNet>>

\* main, lines 64-81: the paper is in the cache and -force is not set
CacheHit ==
    /\ pc = "loop" /\ i <= Len(papers)
    /\ ConsultCache(force)
    /\ LET cached == getCitation(cache, papers[i].URL)
       IN /\ UseCached(cached, force)
          /\ papers' = [papers EXCEPT ![i] =
                [@ EXCEPT !.Citations = cached[1].Citations,
                          !.ArxivAbsURL = cached[1].ArxivAbsURL,
                          !.GoogleScholarURL = cached[1].GoogleScholarURL,
                          !.ArxivSummary = cached[1].ArxivSummary]]
          /\ hist' = [hist EXCEPT ![i] =
                [@ EXCEPT !.hadRow = TRUE,
                          !.seenBefore = papers[i].URL \in everNet,
                          !.ptr = cache[papers[i].URL][1].citations]]
    /\ cur' = [NoCur EXCEPT !.consulted = TRUE]
    /\ net' = [net EXCEPT !.call = NoCall]
    /\ i' = i + 1
    /\ UNCHANGED <<ui, eval, input, force, pc, lv, cache, report, everNet>>

\* main, lines 64-110: no cached paper is used; up to the first request
Dispatch ==
    /\ pc = "loop" /\ i <= Len(papers)
    /\ LET cached == IF ConsultCache(force)
                     THEN getCitation(cache, papers[i].URL) ELSE <<>>
           c == [NoCur EXCEPT !.consulted = ConsultCache(force)]
           e == EnterNonArxiv(papers[i])
       IN /\ ~UseCached(cached, force)
          /\ hist' = [hist EXCEPT ![i] =
                        [@ EXCEPT !.hadRow = cache[papers[i].URL] # <<>>,
                                  !.seenBefore = papers[i].URL \in everNet]]
          /\ cur' = c
          /\ IF FollowLinks(papers[i].URL)
             THEN /\ papers' = [papers EXCEPT ![i] =
                                    [@ EXCEPT !.ArxivAbsURL = papers[i].URL]]
                  /\ pc' = "processArxivPaper"
                  /\ lv' = NoLocals
             ELSE /\ papers' = [papers EXCEPT ![i] = e.paper]
                  /\ pc' = e.pc
                  /\ lv' = [NoLocals EXCEPT !.authors = e.authors]
    /\ net' = [net EXCEPT !.call = NoCall]
    /\ UNCHANGED <<ui, eval, input, force, i, cache, report, everNet>>

\* processArxivPaper: GetArxivSummary(paper.ArxivAbsURL)
ArxivSummaryStep ==
    /\ pc = "processArxivPaper"
    /\ \E resp \in Pages(AbstractBodies) :
        LET ret == GetArxivSummary(resp)
        IN Goto(WithSummary(papers[i], ret), "GetGoogleScholarURL", lv,
                Requested(cur), <<>>, Called("GetArxivSummary", resp, ret))

\* processArxivPaper: GetGoogleScholarURL(paper.ArxivAbsURL) and what follows
\* up to the next request; on an error returned to main, main falls back to
\* processNonArxivPaper
ScholarURLStep ==
    /\ pc = "GetGoogleScholarURL"
    /\ \E resp \in Pages(AnchorBodies) :
        LET ret  == GetGoogleScholarURL(papers[i].ArxivAbsURL, resp)
            call == Called("GetGoogleScholarURL", resp, ret)
            c    == [Requested(cur) EXCEPT !.linkErr = ret.err]
            fail == ArxivLinkFailed(papers[i], ret.val)
            url  == ResolveScholarURL(ret.val, papers[i].ArxivAbsURL)
            back(paper) ==
                LET e == EnterNonArxiv(paper)
                IN Goto(e.paper, e.pc, [NoLocals EXCEPT !.authors = e.authors],
                        [c EXCEPT !.fellBack = TRUE], <<>>, call)
        IN IF ret.fatal THEN Fatal(c, call)
           ELSE IF ret.err
                THEN IF fail.err THEN back(fail.paper)
                     ELSE Goto(fail.paper, "save", lv, c, <<>>, call)
           ELSE IF url = <<>> THEN back(papers[i])
           ELSE Goto([papers[i] EXCEPT !.GoogleScholarURL = url],
                     "FetchCitationsFromScholar", lv, c, <<>>, call)

\* processArxivPaper: FetchCitationsFromScholar(paper.GoogleScholarURL)
FetchCitationsStep ==
    /\ pc = "FetchCitationsFromScholar"
    /\ \E resp \in Pages(ScholarBodies) :
        LET ret  == FetchCitationsFromScholar(resp)
            call == Called("FetchCitationsFromScholar", resp, ret)
            c    == Requested(cur)
        IN IF ret.fatal THEN Fatal(c, call)
           ELSE IF ret.err \/ ret.val = <<>>
                THEN Goto(papers[i], "save", lv, c, <<>>, call)
           ELSE Goto([papers[i] EXCEPT !.Citations = ret.val[1]], "save", lv,
                     c, ret.val, call)

\* processNonArxivPaper: GetArxivSummary(paper.ArxivAbsURL)
NonArxivSummaryStep ==
    /\ pc = "GetArxivSummary"
    /\ \E resp \in Pages(AbstractBodies) :
        LET ret == GetArxivSummary(resp)
            e   == AfterAbstract(WithSummary(papers[i], ret))
        IN Goto(e.paper, e.pc, [lv EXCEPT !.authors = e.authors],
                Requested(cur), <<>>, Called("GetArxivSummary", resp, ret))

\* processNonArxivPaper: GetACLAbstract(paper.URL)
ACLAbstractStep ==
    /\ pc = "GetACLAbstract"
    /\ \E resp \in Pages(AclBodies) :
        LET ret  == GetACLAbstract(resp)
            call == Called("GetACLInfo", resp, ret)
            c    == Requested(cur)
            e    == AfterAbstract(WithSummary(papers[i], ret))
        IN IF ret.fatal THEN Fatal(c, call)
           ELSE Goto(e.paper, e.pc, [lv EXCEPT !.authors = e.authors], c, <<>>, call)

\* processNonArxivPaper: GetACLAuthors(paper.URL), then the title heuristic
ACLAuthorsStep ==
    /\ pc = "GetACLAuthors"
    /\ \E resp \in Pages(AclBodies) :
        LET ret  == GetACLAuthors(resp)
            call == Called("GetACLInfo", resp, ret)
            c    == Requested(cur)
            aclAuthors == IF ~ret.err /\ Len(ret.val) > 0 THEN ret.val ELSE <<>>
            authors == IF Len(aclAuthors) = 0
                       THEN AuthorsFromTitle(papers[i].Title) ELSE aclAuthors
        IN IF ret.fatal THEN Fatal(c, call)
           ELSE Goto(papers[i], "SearchGoogleScholar",
                     [lv EXCEPT !.authors = authors], c, <<>>, call)

\* processNonArxivPaper: SearchGoogleScholar(paper.Title, authors), its
\* request for the result page
SearchStep ==
    /\ pc = "SearchGoogleScholar"
    /\ \E resp \in Pages(SearchBodies) :
        LET ret  == SearchGoogleScholar(papers[i].Title, lv.authors, resp)
            call == Called("SearchGoogleScholar", resp, ret)
            c    == Requested(cur)
        IN IF ret.fatal THEN Fatal(c, call)
           ELSE IF ret.val.fetchPage
                THEN Goto(papers[i], "SearchGoogleScholar/page",
                          [lv EXCEPT !.searchURL = ret.val.searchURL,
                                     !.abstract = ret.val.abstract], c, <<>>, call)
           ELSE Goto(MergeSearch(papers[i], ret.val.searchURL,
                                 ret.val.citationPtr, ret.val.abstract),
                     "save", lv, c, ret.val.citationPtr, call)

\* SearchGoogleScholar: FetchCitationsFromScholar(bestMatchURL), then the
\* merge of processNonArxivPaper
SearchPageStep ==
    /\ pc = "SearchGoogleScholar/page"
    /\ \E resp \in Pages(ScholarBodies) :
        LET ret  == FetchCitationsFromScholar(resp)
            call == Called("FetchCitationsFromScholar", resp, ret)
            c    == Requested(cur)
        IN IF ret.fatal THEN Fatal(c, call)
           ELSE Goto(MergeSearch(papers[i], lv.searchURL, ret.val, lv.abstract),
                     "save", lv, c, ret.val, call)

\* the loop moving on to the next paper with the cache write left undone
SaveStepWithoutWrite ==
    /\ pc = "save"
    /\ i' = i + 1
    /\ pc' = "loop"
    /\ lv' = NoLocals
    /\ cur' = NoCur
    /\ net' = [net EXCEPT !.call = NoCall]
    /\ UNCHANGED <<ui, eval, input, force, papers, report, hist, cache, everNet>>

\* main, lines 112-116: cache.saveCitation(papers[i])
SaveStep ==
    /\ pc = "save"
    /\ cache' = saveCitation(cache, papers[i])
    /\ everNet' = everNet \cup {papers[i].URL}
    /\ i' = i + 1
    /\ pc' = "loop"
    /\ lv' = NoLocals
    /\ cur' = NoCur
    /\ net' = [net EXCEPT !.call = NoCall]
    /\ UNCHANGED <<ui, eval, input, force, papers, report, hist>>

\* main, lines 120-157: sort.Slice and the report
SortAndPrint ==
    /\ pc = "loop" /\ i > Len(papers)
    /\ papers' \in SortResults(papers)
    /\ report' = [k \in 1..Len(papers) |-> ReportLine(papers'[k])]
    /\ pc' = "done"
    /\ UNCHANGED <<ui, eval, input, force, i, lv, cache, hist, cur, net, everNet>>

\* the program is started again on the same file, without -force
Rerun ==
    /\ pc \in {"done", "exited"}
    /\ force' = FALSE
    /\ papers' = ParsedPapers(input)
    /\ i' = 1
    /\ pc' = "loop"
    /\ lv' = NoLocals
    /\ report' = <<>>
    /\ hist' = [k \in 1..Len(input) |-> NoHist]
    /\ cur' = NoCur
    /\ net' = NoNet
    /\ UNCHANGED <<ui, eval, input, cache, everNet>>

Next ==
    \/ CacheHit
    \/ Dispatch
    \/ ArxivSummaryStep
    \/ ScholarURLStep
    \/ FetchCitationsStep
    \/ NonArxivSummaryStep
    \/ ACLAbstractStep
    \/ ACLAuthorsStep
    \/ SearchStep
    \/ SearchPageStep
    \/ SaveStep
    \/ SortAndPrint
    \/ Rerun

Spec == Init /\ [][Next]_vars

(***************************************************************************)
(* The functions of the pipeline, one call at a time.  A call draws its    *)
(* arguments from the sets below and leaves the function, the arguments    *)
(* and the result in eval; the variables of main stay as they are.         *)
(***************************************************************************)
mainVars == <<input, force, papers, i, pc, lv, cache, report, hist, cur, net, everNet>>

\* the sequences over S of length at most n
SeqsUpTo(S, n) == UNION {[1..m -> S] : m \in 0..n}

UnitInit ==
    /\ input = <<>>
    /\ force = FALSE
    /\ papers = <<>>
    /\ i = 1
    /\ pc = "unit"
    /\ lv = NoLocals
    /\ cache = EmptyCache
    /\ report = <<>>
    /\ hist = <<>>
    /\ cur = NoCur
    /\ net = NoNet
    /\ everNet = {}
    /\ eval = NoEval
    /\ ui = NoUi

\* the texts a ".gs_fl a" link of a Scholar page may carry
LinkTexts ==
    {CitedBy("0"), CitedBy("3"), CitedBy("7"), CitedBy("many"),
     <<"Related articles">>}

\* Scholar pages: fl as in ScholarBodies, or_cit whether the page holds a
\* ".gs_or_cit" block with a "Cite" span
CitationPages ==
    Pages({[fl |-> fl, or_cit |-> c] :
            fl \in SeqsUpTo(LinkTexts, MaxLinks), c \in BOOLEAN})

EvalFetchCitations ==
    /\ eval = NoEval
    /\ \E resp \in CitationPages :
        /\ eval' = [fn |-> "FetchCitationsFromScholar", arg |-> resp,
                    out |-> FetchCitationsFromScholar(resp)]
        /\ UNCHANGED <<mainVars, ui>>

\* result entries of a Scholar search page, told apart by their counts,
\* snippets and links
EntryLink2 == <<"https://", "example.com", "/", "entry2">>
EntryLink3 == <<"https://", "example.com", "/", "entry3">>

ResultEntries ==
    {Entry(<<<<"graph", " ", "language", " ", "models">>>>,
           <<CitedBy("3")>>, <<<<"Snip">>>>, <<<<EntryLink>>>>),
     Entry(<<GraphTitle \o <<" ", "Revisited">>>>,
           <<CitedBy("7")>>, <<<<"Snip2">>>>, <<<<EntryLink2>>>>),
     Entry(<<<<" ", "Models">>>>, <<CitedBy("0")>>, <<>>, <<>>),
     Entry(<<<<"Other">>>>, <<CitedBy("7")>>, <<<<"Snip3">>>>, <<<<EntryLink3>>>>),
     Entry(<<<<"\"">>, <<"Survey">>, <<"\"">>>>, <<>>, <<<<"Snip">>>>, <<<<EntryLink>>>>)}

SearchPages ==
    Pages({[entries |-> es] : es \in SeqsUpTo(ResultEntries, MaxLinks)})

SearchTitles == {GraphTitle, SurveyTitle, <<"Unmatched">>}

EvalSearch ==
    /\ eval = NoEval
    /\ \E title \in SearchTitles, resp \in SearchPages :
        /\ eval' = [fn |-> "SearchGoogleScholar",
                    arg |-> [title |-> title, authors |-> AuthorsFromTitle(title),
                             resp |-> resp],
                    out |-> SearchGoogleScholar(title, AuthorsFromTitle(title), resp)]
        /\ UNCHANGED <<mainVars, ui>>

\* papers as they stand when processNonArxivPaper reaches the search
SearchedPapers ==
    {[NewPaper(SurveyTitle, OtherPage) EXCEPT !.ArxivSummary = a, !.Citations = n] :
        a \in {<<>>, <<"Abs">>}, n \in {0, 3}}

EvalMergeSearch ==
    /\ eval = NoEval
    /\ \E paper \in SearchedPapers, searchURL \in {EntryLink, EntryLink2},
       citationPtr \in {<<>>, <<0>>, <<7>>}, scholarAbstract \in {<<>>, <<"Snip">>} :
        /\ eval' = [fn |-> "MergeSearch",
                    arg |-> [paper |-> paper, searchURL |-> searchURL,
                             citationPtr |-> citationPtr,
                             scholarAbstract |-> scholarAbstract],
                    out |-> MergeSearch(paper, searchURL, citationPtr, scholarAbstract)]
        /\ UNCHANGED <<mainVars, ui>>

\* titles in the "Author1, Author2 - Title" convention and others
SmithDoeTitle ==
    <<"Smith", ",", " ", "J.", " ", "and ", "Doe", ",", " ", "A.", " - ",
      "Some", " ", "Paper">>
LeeTitle == <<"Lee", " ", "et al.", " - ", "Some", " ", "Paper">>

AuthorTitles ==
    {SmithDoeTitle, LeeTitle, GraphTitle, SurveyTitle,
     <<"Smith", ",", " ", "Jones", ",", " ", "and ", "Lee", " - ", "Graphs">>,
     <<"Smith", ",", " ", "Lee", " - ", "Graphs", " - ", "Survey">>,
     <<"and ", "Smith", ",", " ", "Jones", " - ", "Graphs">>,
     <<"Smith", ",", ",", " ", "Jones", " - ", "Graphs">>,
     <<" - ", "Graphs">>}

EvalAuthorsFromTitle ==
    /\ eval = NoEval
    /\ \E title \in AuthorTitles :
        /\ eval' = [fn |-> "AuthorsFromTitle", arg |-> title,
                    out |-> AuthorsFromTitle(title)]
        /\ UNCHANGED <<mainVars, ui>>

\* URLs by their parts: what precedes the path, the path, the identifier
\* and what follows it
UrlHosts ==
    {<<"https://", "arxiv.org">>, <<"https://", "aclanthology.org">>,
     <<"https://", "example.com">>,
     <<"https://", "aclanthology.org", "/", "arxiv.org">>}

UrlPaths ==
    {<<"/abs", "/">>, <<"/pdf", "/">>, <<"/pdf">>, <<"/list", "/">>, <<"/">>,
     <<"/pdf", "/", "/pdf", "/">>}

UrlIds == {<<"2301", ".", "1">>, <<"2301", ".", "1", "v", "2">>, <<"cs">>, <<>>}

UrlSuffixes == {<<>>, <<".", "pdf">>, <<".", "pdf", ".", "pdf">>}

UrlParts == [host : UrlHosts, path : UrlPaths, id : UrlIds, suffix : UrlSuffixes]

UrlOf(u) == u.host \o u.path \o u.id \o u.suffix

EvalConvertPDFtoAbsURL ==
    /\ eval = NoEval
    /\ \E u \in UrlParts :
        /\ eval' = [fn |-> "ConvertPDFtoAbsURL", arg |-> u,
                    out |-> [once |-> ConvertPDFtoAbsURL(UrlOf(u)),
                             twice |-> ConvertPDFtoAbsURL(ConvertPDFtoAbsURL(UrlOf(u)))]]
        /\ UNCHANGED <<mainVars, ui>>

EvalGetArxivID ==
    /\ eval = NoEval
    /\ \E u \in UrlParts :
        /\ eval' = [fn |-> "GetArxivID", arg |-> u, out |-> GetArxivID(UrlOf(u))]
        /\ UNCHANGED <<mainVars, ui>>

EvalClassify ==
    /\ eval = NoEval
    /\ \E u \in UrlParts :
        /\ eval' = [fn |-> "IsArxivURL/IsArxivPDF/IsACLURL", arg |-> u,
                    out |-> [arxiv |-> IsArxivURL(UrlOf(u)),
                             pdf |-> IsArxivPDF(UrlOf(u)),
                             acl |-> IsACLURL(UrlOf(u))]]
        /\ UNCHANGED <<mainVars, ui>>

\* the anchors a paper page can carry
QueryLink == <<"https://", "scholar.google", ".com", "/scholar?q=1">>
RegionalLink == <<"https://", "scholar.google", ".de", "/scholar?cites=1">>

PageAnchors ==
    {[class |-> "", href |-> <<CitesLink>>],
     [class |-> "", href |-> <<QueryLink>>],
     [class |-> "gs", href |-> <<EntryLink>>],
     [class |-> "gs", href |-> <<>>],
     [class |-> "", href |-> <<RegionalLink>>],
     [class |-> "", href |-> <<EntryLink>>]}

PaperPages ==
    Failures \cup {Resp(200, [anchors |-> a]) : a \in SeqsUpTo(PageAnchors, MaxLinks)}

PaperUrls == {u \in UrlParts : u.suffix = <<>>}

EvalGetGoogleScholarURL ==
    /\ eval = NoEval
    /\ \E u \in PaperUrls, resp \in PaperPages :
        /\ eval' = [fn |-> "GetGoogleScholarURL", arg |-> [url |-> u, resp |-> resp],
                    out |-> GetGoogleScholarURL(UrlOf(u), resp)]
        /\ UNCHANGED <<mainVars, ui>>

\* SearchGoogleScholar as a whole: the request for the result page answered
\* by resp and, where it is made, the request for the matched entry's page
\* answered by page; requests are the URLs of the requests after the first
SearchAndFetch(title, authors, resp, page) ==
    LET first == SearchGoogleScholar(title, authors, resp)
        result(ptr) == [searchURL |-> first.val.searchURL, citationPtr |-> ptr,
                        abstract |-> first.val.abstract]
    IN IF first.fatal \/ ~first.val.fetchPage
       THEN [requests |-> <<>>,
             ret |-> Ret(result(first.val.citationPtr), first.err, first.fatal)]
       ELSE LET fetched == FetchCitationsFromScholar(page)
            IN [requests |-> <<first.val.searchURL>>,
                ret |-> Ret(result(fetched.val), FALSE, fetched.fatal)]

\* result pages of one or two entries, among them a matching entry that
\* has neither a count nor a link and an entry whose title is blank
BlankEntry == Entry(<<<<" ">>, <<"\"">>>>, <<CitedBy("7")>>, <<>>, <<<<EntryLink3>>>>)

FetchEntries ==
    ResultEntries \cup {Entry(<<<<"Survey">>>>, <<<<"Cite">>>>, <<>>, <<>>), BlankEntry}

EvalSearchAndFetch ==
    /\ eval = NoEval
    /\ \E title \in SearchTitles, es \in SeqsUpTo(FetchEntries, MaxLinks),
          page \in Pages(ScholarBodies) :
        /\ eval' = [fn |-> "SearchGoogleScholar/page",
                    arg |-> [title |-> title, entries |-> es, page |-> page],
                    out |-> SearchAndFetch(title, AuthorsFromTitle(title),
                                           Resp(200, [entries |-> es]), page)]
        /\ UNCHANGED <<mainVars, ui>>

\* ACL Anthology pages: the abstract block and the texts of the author links
AclPages ==
    Pages({[abstract |-> a, lead |-> l] :
            a \in {<<>>, <<<<" ", "Abs">>>>},
            l \in SeqsUpTo({<<"Plenz">>, <<" ">>, <<"Lee", " ">>}, MaxLinks)})

\* processNonArxivPaper on an ACL Anthology paper, from its entry to the
\* call of SearchGoogleScholar, both requests for the page being answered
\* by resp
EvalProcessACLPaper ==
    /\ eval = NoEval
    /\ \E title \in SearchTitles, resp \in AclPages :
        LET paper == WithSummary(NewPaper(title, AclPage), GetACLAbstract(resp))
            ret == GetACLAuthors(resp)
            aclAuthors == IF ~ret.err /\ Len(ret.val) > 0 THEN ret.val ELSE <<>>
            authors == IF Len(aclAuthors) = 0
                       THEN AuthorsFromTitle(paper.Title) ELSE aclAuthors
        IN /\ eval' = [fn |-> "processNonArxivPaper/ACL",
                       arg |-> [title |-> title, resp |-> resp],
                       out |-> [paper |-> paper, authors |-> authors,
                                fatal |-> ret.fatal]]
           /\ UNCHANGED <<mainVars, ui>>

\* papers handed to saveCitation: two URLs, and fields that differ from
\* one save to the next
SavedPapers ==
    {[NewPaper(t, u) EXCEPT !.Citations = n, !.GoogleScholarURL = g,
                            !.ArxivSummary = IF n = 0 THEN <<>> ELSE <<"Abs">>] :
        t \in {GraphTitle, SurveyTitle}, u \in {AclPage, OtherPage},
        n \in {0, 7}, g \in {<<>>, EntryLink}}

\* a further call of saveCitation on the table; eval.arg are the papers
\* saved so far, in the order of the calls
EvalSaveCitation ==
    /\ eval.fn \in {"", "saveCitation"}
    /\ Len(eval.arg) < MaxSaves
    /\ \E paper \in SavedPapers :
        /\ cache' = saveCitation(cache, paper)
        /\ eval' = [fn |-> "saveCitation", arg |-> Append(eval.arg, paper), out |-> <<>>]
    /\ UNCHANGED <<ui, input, force, papers, i, pc, lv, report, hist, cur, net, everNet>>

UnitNext ==
    \/ EvalSaveCitation
    \/ EvalProcessACLPaper
    \/ EvalSearchAndFetch
    \/ EvalGetGoogleScholarURL
    \/ EvalConvertPDFtoAbsURL
    \/ EvalGetArxivID
    \/ EvalClassify
    \/ EvalFetchCitations
    \/ EvalSearch
    \/ EvalMergeSearch
    \/ EvalAuthorsFromTitle

UnitSpec == UnitInit /\ [][UnitNext]_vars

(***************************************************************************)
(* script.js: the search of the web UI.  The page is one thread of         *)
(* callbacks: the input handler behind debounce, the timer, the popstate   *)
(* handler and the then/catch callbacks of every fetch; the responses of   *)
(* the fetches arrive in any order.                                        *)
(***************************************************************************)
Queries == {"", "graph", "survey"}

UiInit ==
    /\ input = <<>>
    /\ force = FALSE
    /\ papers = <<>>
    /\ i = 1
    /\ pc = "ui"
    /\ lv = NoLocals
    /\ cache = EmptyCache
    /\ report = <<>>
    /\ hist = <<>>
    /\ cur = NoCur
    /\ net = NoNet
    /\ everNet = {}
    /\ eval = NoEval
    /\ ui = NoUi

\* performSearch(query) up to the call of fetch: the loading row is shown
\* and the request is under way
performSearch(u, query) ==
    [u EXCEPT !.calls = Append(@, query),
              !.pending = @ \cup {Len(u.calls) + 1},
              !.tbody = Shown("loading", "")]

\* the "input" listener: debouncedSearch(e.target.value) restarts the timer
InputTyped ==
    /\ \E query \in Queries :
        ui' = [ui EXCEPT !.value = query, !.timer = <<query>>]
    /\ UNCHANGED <<mainVars, eval>>

\* the timer of debounce runs out: performSearch(query)
TimerFired ==
    /\ ui.timer # <<>>
    /\ Len(ui.calls) < MaxSearches
    /\ ui' = performSearch([ui EXCEPT !.timer = <<>>], ui.timer[1])
    /\ UNCHANGED <<mainVars, eval>>

\* the "popstate" listener: the input takes the query of the URL and
\* performSearch(query) is called at once
PopState ==
    /\ Len(ui.calls) < MaxSearches
    /\ \E query \in Queries :
        ui' = performSearch([ui EXCEPT !.value = query], query)
    /\ UNCHANGED <<mainVars, eval>>

\* the then callback of the fetch of call n: table body and pagination are
\* rendered from the response for the query of that call
ResponseArrived ==
    /\ \E n \in ui.pending :
        ui' = [ui EXCEPT !.pending = @ \ {n},
                         !.tbody = Shown("results", ui.calls[n]),
                         !.pagination = Shown("results", ui.calls[n])]
    /\ UNCHANGED <<mainVars, eval>>

\* the catch callback of the fetch of call n: the error row
FetchFailed ==
    /\ \E n \in ui.pending :
        ui' = [ui EXCEPT !.pending = @ \ {n}, !.failed = TRUE,
                         !.tbody = Shown("error", "")]
    /\ UNCHANGED <<mainVars, eval>>

UiNext ==
    \/ InputTyped
    \/ TimerFired
    \/ PopState
    \/ ResponseArrived
    \/ FetchFailed

UiSpec == UiInit /\ [][UiNext]_vars

(***************************************************************************)
(* Properties                                                              *)
(***************************************************************************)
Processed == 1..(i - 1)

\* papers still stands in the order of the input (sort.Slice has not run)
Unsorted == pc # "done"

\* a later paper of this run with the same URL has been processed
Superseded(k) == \E j \in Processed : j > k /\ input[j].URL = input[k].URL

\* the state of paper k in the pipeline's state machine
PaperState(k) ==
    IF k < i THEN "Resolved"
    ELSE IF k = i /\ pc # "loop" THEN "Resolving"
    ELSE "Uncached"

Fetchers ==
    {"GetGoogleScholarURL", "FetchCitationsFromScholar", "SearchGoogleScholar",
     "GetACLInfo"}

\* C1: a citation count resolved as known zero is never treated as unknown
\* and an unknown one never as zero: the cache row of a paper resolved with
\* a pointer to 0 holds 0 and not NULL, the paper is displayed as "0" and not
\* "N/A", and it sorts before a paper whose count is unknown; a paper resolved
\* with nil is cached as NULL and displayed as "N/A".
C1_ZeroIsNotUnknown ==
    Unsorted =>
        \A k \in Processed :
            /\ hist[k].ptr = <<0>> =>
                /\ DisplayCitations(papers[k]) = <<"0">>
                /\ ~Superseded(k) => cache[input[k].URL][1].citations = <<0>>
                /\ \A j \in Processed :
                        hist[j].ptr = <<>> => Less(papers[k], papers[j])
            /\ hist[k].ptr = <<>> =>
                /\ DisplayCitations(papers[k]) = <<"N/A">>
                /\ ~Superseded(k) => cache[input[k].URL][1].citations = <<>>

\* C2: saveCitation followed by getCitation on the same URL returns the
\* citation count and abstract that were saved: the citations column read
\* back is the citation pointer the paper was resolved with (known n as n,
\* nil as NULL) and the abstract is the same.
C2_CacheRoundTrip ==
    Unsorted =>
        \A k \in Processed :
            LET table == saveCitation(cache, papers[k])
                back  == getCitation(table, papers[k].URL)
            IN /\ back # <<>>
               /\ back[1].ArxivSummary = papers[k].ArxivSummary
               /\ back[1].Citations = papers[k].Citations
               /\ table[papers[k].URL][1].citations = hist[k].ptr

C6_RateLimitKeepsRunning ==
    net.seen429 => pc # "exited"

\* C7: each of GetGoogleScholarURL, FetchCitationsFromScholar,
\* SearchGoogleScholar and GetACLInfo, answered with HTTP 429, returns a
\* non-nil error to its caller.
C7_RateLimitIsReturned ==
    (net.call.op \in Fetchers /\ net.call.status = 429) =>
        (net.call.err /\ ~net.call.fatal)

\* C8: after a fetch was answered with HTTP 429 no further request is issued
\* in the run.
C8_NoRequestAfter429 ==
    ~net.after429

\* C9: whatever the fetches answer, a paper taken up reaches Resolved after
\* at most five requests: the process never ends with a paper not Resolved.
C9_AlwaysResolved ==
    /\ cur.reqs <= 5
    /\ pc \in {"done", "exited"} =>
            \A k \in 1..Len(input) : PaperState(k) = "Resolved"

\* C10: on the arXiv-abstract path, when GetGoogleScholarURL returned an
\* error (the page fetch failed or link resolution failed), the paper went
\* through processNonArxivPaper before it is cached.
C10_FallbackOnLinkError ==
    (pc = "save" /\ cur.linkErr) => cur.fellBack

\* the counts of the "Cited by N" links among the link texts fl
CitedCounts(fl) ==
    {n \in {0, 3, 7} : \E k \in 1..Len(fl) : fl[k] = CitedBy(Itoa(n)[1])}

\* C11: FetchCitationsFromScholar returns known N when the page holds a
\* "Cited by N" link, known 0 when the page holds the "Cite" affordance and
\* no "Cited by N" link, and nil when the page holds neither.
C11_CiteMeansZero ==
    (eval.fn = "FetchCitationsFromScholar" /\ eval.arg.status = 200) =>
        LET body == eval.arg.body
        IN /\ CitedCounts(body.fl) # {} =>
                (eval.out.val # <<>> /\ eval.out.val[1] \in CitedCounts(body.fl))
           /\ (CitedCounts(body.fl) = {} /\ body.or_cit) => eval.out.val = <<0>>
           /\ (CitedCounts(body.fl) = {} /\ ~body.or_cit) => eval.out.val = <<>>

\* the indices of the entries whose normalized title contains the normalized
\* query title or is contained in it
MatchingEntries(entries, title) ==
    {k \in 1..Len(entries) :
        LET rt == ToLower(TrimSpace(RemoveAll(Text(entries[k].rt), "\"")))
            q  == ToLower(TrimSpace(RemoveAll(title, "\"")))
        IN Contains(rt, q) \/ Contains(q, rt)}

\* C12: SearchGoogleScholar takes its citation count, snippet and URL from
\* the first entry, in document order, whose normalized title contains the
\* normalized query title or is contained in it; the entries before and
\* after it contribute nothing.
C12_FirstMatchWins ==
    (eval.fn = "SearchGoogleScholar" /\ eval.arg.resp.status = 200) =>
        LET es   == eval.arg.resp.body.entries
            hits == MatchingEntries(es, eval.arg.title)
        IN hits # {} =>
            LET e == es[CHOOSE k \in hits : \A m \in hits : k <= m]
                v == eval.out.val
            IN /\ v.citationPtr =
                    (IF CitedCounts(e.fl) = {} THEN <<>>
                     ELSE <<CHOOSE n \in CitedCounts(e.fl) : TRUE>>)
               /\ v.abstract = (IF e.snp = <<>> THEN <<>> ELSE e.snp[1])
               /\ v.searchURL =
                    (IF e.hrefs = <<>>
                     THEN SearchURL(eval.arg.title, eval.arg.authors)
                     ELSE e.hrefs[1][1])
               /\ eval.out =
                    SearchGoogleScholar(eval.arg.title, eval.arg.authors,
                                        Resp(200, [entries |-> <<e>>]))

\* a page with two matching entries: the count is that of the first
C12_Witness ==
    /\ eval.fn = "SearchGoogleScholar" /\ eval.arg.resp.status = 200
    /\ eval.arg.title = GraphTitle
    /\ Len(eval.arg.resp.body.entries) = 2
    /\ MatchingEntries(eval.arg.resp.body.entries, GraphTitle) = {1, 2}
    /\ eval.out.val.citationPtr = <<7>>

\* C13: when no entry matches the query title, SearchGoogleScholar returns
\* the search URL itself, a nil citation count, an empty abstract and no
\* error.
C13_NoMatchReturnsSearchURL ==
    (/\ eval.fn = "SearchGoogleScholar" /\ eval.arg.resp.status = 200
     /\ MatchingEntries(eval.arg.resp.body.entries, eval.arg.title) = {}) =>
        /\ eval.out.val.searchURL = SearchURL(eval.arg.title, eval.arg.authors)
        /\ eval.out.val.citationPtr = <<>>
        /\ eval.out.val.abstract = <<>>
        /\ ~eval.out.val.fetchPage
        /\ ~eval.out.err /\ ~eval.out.fatal

\* a page with entries none of which matches
C13_Witness ==
    /\ eval.fn = "SearchGoogleScholar" /\ eval.arg.resp.status = 200
    /\ Len(eval.arg.resp.body.entries) = 2
    /\ MatchingEntries(eval.arg.resp.body.entries, eval.arg.title) = {}
    /\ eval.out.val.searchURL = SearchURL(eval.arg.title, eval.arg.authors)

\* C14: the merge of processNonArxivPaper keeps an abstract the paper already
\* has, whatever snippet the search found, and keeps the citation count of
\* the paper when the search returned a nil count.
C14_MergeKeepsKnown ==
    eval.fn = "MergeSearch" =>
        /\ eval.arg.paper.ArxivSummary # <<>> =>
                eval.out.ArxivSummary = eval.arg.paper.ArxivSummary
        /\ eval.arg.citationPtr = <<>> =>
                eval.out.Citations = eval.arg.paper.Citations

\* a paper with an abstract and 3 citations merged with a search that found
\* a snippet and no count
C14_Witness ==
    /\ eval.fn = "MergeSearch"
    /\ eval.arg.paper.ArxivSummary = <<"Abs">> /\ eval.arg.paper.Citations = 3
    /\ eval.arg.scholarAbstract = <<"Snip">> /\ eval.arg.citationPtr = <<>>
    /\ eval.out.ArxivSummary = <<"Abs">> /\ eval.out.Citations = 3

\* C15: the author heuristic yields the two authors "Smith, J." and
\* "Doe, A." for "Smith, J. and Doe, A. - Some Paper", and the single author
\* "Lee" for "Lee et al. - Some Paper".
C15_AuthorExamples ==
    eval.fn = "AuthorsFromTitle" =>
        /\ eval.arg = SmithDoeTitle =>
                eval.out = <<<<"Smith", ",", " ", "J.">>, <<"Doe", ",", " ", "A.">>>>
        /\ eval.arg = LeeTitle => eval.out = <<<<"Lee">>>>

\* C16: for a title with a " - " and without "et al.", the authors are the
\* non-empty trimmed comma-separated parts of everything before the last
\* " - " of the title, a leading "and " stripped from the final part only.
C16_LastSeparatorSplit ==
    (/\ eval.fn = "AuthorsFromTitle"
     /\ Contains(eval.arg, <<" - ">>)
     /\ ~Contains(eval.arg, <<"et al.">>)) =>
        LET title == eval.arg
            last  == CHOOSE k \in 1..Len(title) :
                        title[k] = " - " /\ \A m \in (k + 1)..Len(title) : title[m] # " - "
            parts == Split(SubSeq(title, 1, last - 1), ",")
            entry(k) == IF k = Len(parts)
                        THEN TrimPrefix(TrimSpace(parts[k]), <<"and ">>)
                        ELSE TrimSpace(parts[k])
            kept  == {k \in 1..Len(parts) : entry(k) # <<>>}
        IN /\ Len(eval.out) = Cardinality(kept)
           /\ \A n \in 1..Len(eval.out) :
                \E k \in kept :
                    /\ Cardinality({j \in kept : j <= k}) = n
                    /\ eval.out[n] = entry(k)

\* the URL ends in ".pdf"
EndsInPdf(url) ==
    Len(url) >= 2 /\ url[Len(url) - 1] = "." /\ url[Len(url)] = "pdf"

\* url is pdfURL with its first "/pdf/" turned into "/abs/" and one ".pdf"
\* taken from its end
IsAbsOf(url, pdfURL) ==
    LET cut == IF EndsInPdf(pdfURL) THEN 2 ELSE 0
    IN /\ Len(url) = Len(pdfURL) - cut
       /\ \E k \in 1..(Len(url) - 1) :
            /\ pdfURL[k] = "/pdf" /\ pdfURL[k + 1] = "/"
            /\ \A m \in 1..(k - 1) : ~(pdfURL[m] = "/pdf" /\ pdfURL[m + 1] = "/")
            /\ url[k] = "/abs"
            /\ \A j \in (1..Len(url)) \ {k} : url[j] = pdfURL[j]

C18_ExactArxivID ==
    eval.fn = "GetArxivID" =>
        LET u == eval.arg
            pattern == /\ u.host[Len(u.host)] = "arxiv.org"
                       /\ u.path \in {<<"/abs", "/">>, <<"/pdf", "/">>}
                       /\ u.id # <<>> /\ u.id[1] \in IdChars
        IN /\ (pattern /\ u.suffix \in {<<>>, <<".", "pdf">>}) => eval.out = u.id
           /\ (/\ ~Contains(UrlOf(u), <<"arxiv.org", "/abs", "/">>)
               /\ ~Contains(UrlOf(u), <<"arxiv.org", "/pdf", "/">>)) => eval.out = <<>>

\* C19: for every URL, IsACLURL and IsArxivURL are not both true, and
\* IsArxivPDF implies IsArxivURL.
C19_ClassesDisjoint ==
    eval.fn = "IsArxivURL/IsArxivPDF/IsACLURL" =>
        /\ ~(eval.out.acl /\ eval.out.arxiv)
        /\ eval.out.pdf => eval.out.arxiv

\* the first of the anchors whose href holds substr, as a list of at most
\* one index
FirstWithHref(anchors, substr) ==
    LET hits == {k \in 1..Len(anchors) :
                    anchors[k].href # <<>> /\ Contains(anchors[k].href[1], substr)}
    IN IF hits = {} THEN <<>> ELSE <<CHOOSE k \in hits : \A m \in hits : k <= m>>

\* the first anchor of class gs, as a list of at most one index
FirstGs(anchors) ==
    LET hits == {k \in 1..Len(anchors) : anchors[k].class = "gs"}
    IN IF hits = {} THEN <<>> ELSE <<CHOOSE k \in hits : \A m \in hits : k <= m>>

\* C20: on a page that was fetched, GetGoogleScholarURL returns the link of
\* the first pattern that yields one, the patterns being tried in the order
\* a[href*='scholar.google.com'], a.gs, a[href*='scholar.google']; it
\* returns the URL constructed from the arXiv identifier only when no
\* pattern yields a link and the paper URL is an arXiv URL (and does so
\* for every arxiv.org/abs/<id> URL); otherwise it returns "" and no error.
C20_SelectorOrder ==
    (eval.fn = "GetGoogleScholarURL" /\ eval.arg.resp.status = 200) =>
        LET a == eval.arg.resp.body.anchors
            u == eval.arg.url
            com == FirstWithHref(a, <<"scholar.google", ".com">>)
            gs == FirstGs(a)
            any == FirstWithHref(a, <<"scholar.google">>)
            gsLink == gs # <<>> /\ a[gs[1]].href # <<>>
            constructed == HasPrefix(eval.out.val, GetDirectScholarURL(<<>>))
            absId == /\ u.host[Len(u.host)] = "arxiv.org"
                     /\ u.path = <<"/abs", "/">>
                     /\ u.id # <<>> /\ \A k \in 1..Len(u.id) : u.id[k] \in IdChars
        IN /\ ~eval.out.err /\ ~eval.out.fatal
           /\ com # <<>> => eval.out.val = a[com[1]].href[1]
           /\ (com = <<>> /\ gsLink) => eval.out.val = a[gs[1]].href[1]
           /\ (com = <<>> /\ ~gsLink /\ any # <<>>) => eval.out.val = a[any[1]].href[1]
           /\ constructed => (com = <<>> /\ ~gsLink /\ any = <<>> /\ IsArxivURL(UrlOf(u)))
           /\ (com = <<>> /\ ~gsLink /\ any = <<>>) =>
                /\ absId => eval.out.val = GetDirectScholarURL(u.id)
                /\ ~constructed => eval.out.val = <<>>

\* a page whose first anchor is of class gs and whose second anchor links
\* to scholar.google.com: the second one is returned
C20_Witness ==
    /\ eval.fn = "GetGoogleScholarURL"
    /\ eval.arg.resp.status = 200
    /\ eval.arg.resp.body.anchors =
            <<[class |-> "gs", href |-> <<EntryLink>>], [class |-> "", href |-> <<CitesLink>>]>>
    /\ eval.out = Ret(CitesLink, FALSE, FALSE)

\* the positions of main at which a request of the paper in hand is due
RequestPcs ==
    {"processArxivPaper", "GetGoogleScholarURL", "FetchCitationsFromScholar",
     "GetArxivSummary", "GetACLAbstract", "GetACLAuthors", "SearchGoogleScholar",
     "SearchGoogleScholar/page"}

\* C21: papers are processed one after another: while main works on paper i
\* (a request of it is due, or its cache write is), every earlier paper is
\* finished, its row standing in the cache as the paper was left, and no
\* later paper has been touched: no cache read, no request, no field set.
C21_OneAtATime ==
    (pc \in RequestPcs \cup {"save", "loop", "exited"}) =>
        /\ pc \in RequestPcs \cup {"save"} => i \in 1..Len(papers)
        /\ \A k \in 1..Len(papers) :
            /\ k > i => hist[k] = NoHist /\ papers[k] = ParsedPapers(input)[k]
            /\ k < i => /\ cache[input[k].URL] # <<>>
                        /\ ~Superseded(k) =>
                                cache[input[k].URL] = <<CacheRow(papers[k])>>

\* main is at a request of the second paper after the first paper went
\* to the network, fell back to the title search and was cached
C21_Witness ==
    /\ i = 2 /\ pc \in RequestPcs
    /\ hist[1].requested
    /\ input[1].URL = ArxivList /\ input[2].URL # ArxivList
    /\ cache[input[1].URL] = <<CacheRow(papers[1])>>
    /\ papers[1].GoogleScholarURL = SearchURL(input[1].Title, AuthorsFromTitle(input[1].Title))

\* the one-to-one assignments of the lines of the report to the papers of
\* the input that agree on title and URL
ListedOnce ==
    {f \in [1..Len(report) -> 1..Len(input)] :
        /\ \A x, y \in 1..Len(report) : x # y => f[x] # f[y]
        /\ \A x \in 1..Len(report) :
                report[x].Title = input[f[x]].Title /\ report[x].URL = input[f[x]].URL}

\* C22: when a run is over, its report lists exactly the papers of the
\* input, each once; a paper without a resolved count is listed with "N/A",
\* and its line shows the partial data found: the abstract, the arXiv URL
\* and the Scholar URL.
C22_ReportComplete ==
    (pc \in {"done", "exited"}) =>
        /\ Len(report) = Len(input) /\ ListedOnce # {}
        /\ \A k \in 1..Len(report) :
            /\ papers[k].Citations = 0 => report[k].Citations = <<"N/A">>
            /\ report[k].arXiv = papers[k].ArxivAbsURL
            /\ report[k].Scholar = papers[k].GoogleScholarURL
            /\ papers[k].ArxivSummary # <<>> =>
                    \E fld \in DOMAIN report[k] : report[k][fld] = papers[k].ArxivSummary

\* the citation pointer with which the paper of a line of the report was
\* resolved, for an input without repeated URLs
ResolvedPtr(line) ==
    hist[CHOOSE k \in 1..Len(input) : input[k].URL = line.URL].ptr

\* C23: the report lists the papers by citation count in descending order,
\* and every paper whose count is unknown comes after every paper whose
\* count is known.
C23_SortedReport ==
    (/\ pc = "done"
     /\ \A a, b \in 1..Len(input) : a # b => input[a].URL # input[b].URL) =>
        \A x, y \in 1..Len(report) :
            x < y =>
                /\ ResolvedPtr(report[x]) = <<>> => ResolvedPtr(report[y]) = <<>>
                /\ (ResolvedPtr(report[x]) # <<>> /\ ResolvedPtr(report[y]) # <<>>) =>
                        ResolvedPtr(report[x])[1] >= ResolvedPtr(report[y])[1]

\* some link of the entry reads "Cited by" followed by a number
HasCount(fl) ==
    \E j \in 1..Len(fl) :
        HasPrefix(fl[j], <<"Cited by">>) /\ Atoi(TrimPrefix(fl[j], <<"Cited by", " ">>)) # <<>>

\* C24: in SearchGoogleScholar, when an entry matches and yields no citation
\* count, exactly one further request is made, to the matched entry's own
\* URL, and what is extracted from its answer is the returned citation
\* count; no such request is made when no entry matches or when the matched
\* entry gave a count.
C24_OneFurtherRequest ==
    eval.fn = "SearchGoogleScholar/page" =>
        LET es == eval.arg.entries
            hits == MatchingEntries(es, eval.arg.title)
            k == CHOOSE m \in hits : \A n \in hits : m <= n
            page == eval.arg.page
        IN IF hits # {} /\ ~HasCount(es[k].fl)
           THEN /\ Len(eval.out.requests) = 1
                /\ \E h \in 1..Len(es[k].hrefs) : es[k].hrefs[h] = <<eval.out.requests[1]>>
                /\ ~eval.out.ret.fatal /\ ~eval.out.ret.err
                /\ eval.out.ret.val.citationPtr =
                        IF page.status = 200 THEN CitedByScan(page.body.fl, <<>>) ELSE <<>>
           ELSE eval.out.requests = <<>>

\* C25: for an ACL Anthology paper whose page has an abstract and no author
\* list, processNonArxivPaper keeps the abstract of the page and takes the
\* authors of the search from the title.
C25_AbstractKeptWithoutAuthors ==
    (/\ eval.fn = "processNonArxivPaper/ACL"
     /\ eval.arg.resp.status = 200
     /\ eval.arg.resp.body.abstract # <<>>
     /\ \A k \in 1..Len(eval.arg.resp.body.lead) :
            TrimSpace(eval.arg.resp.body.lead[k]) = <<>>) =>
        /\ eval.out.paper.ArxivSummary = TrimSpace(Text(eval.arg.resp.body.abstract))
        /\ eval.out.authors = AuthorsFromTitle(eval.arg.title)

\* the calls of saveCitation so far that saved a paper of this URL
SavesOf(url) == {k \in 1..Len(eval.arg) : eval.arg[k].URL = url}

\* C26: after any sequence of saveCitation calls the table holds at most one
\* row per URL: none for a URL never saved, and else a row that equals the
\* paper saved last for the URL in every column (a count of 0 being stored
\* as NULL), whatever the rows before it held.
C26_LastSaveWins ==
    eval.fn = "saveCitation" =>
        \A url \in URLs :
            IF SavesOf(url) = {} THEN cache[url] = <<>>
            ELSE LET last == eval.arg[CHOOSE k \in SavesOf(url) : \A m \in SavesOf(url) : k >= m]
                 IN /\ Len(cache[url]) = 1
                    /\ cache[url][1].title = last.Title
                    /\ cache[url][1].citations = (IF last.Citations = 0 THEN <<>> ELSE <<last.Citations>>)
                    /\ cache[url][1].arxiv_abs_url = last.ArxivAbsURL
                    /\ cache[url][1].google_scholar_url = last.GoogleScholarURL
                    /\ cache[url][1].arxiv_summary = last.ArxivSummary

\* a URL saved twice, the second paper differing from the first in title,
\* count, abstract and Scholar URL
C26_Witness ==
    /\ eval.fn = "saveCitation" /\ Len(eval.arg) = 2
    /\ eval.arg[1] = [NewPaper(GraphTitle, AclPage) EXCEPT !.Citations = 7,
                            !.ArxivSummary = <<"Abs">>, !.GoogleScholarURL = EntryLink]
    /\ eval.arg[2] = NewPaper(SurveyTitle, AclPage)
    /\ cache[AclPage] = <<CacheRow(NewPaper(SurveyTitle, AclPage))>>

BlankTitle(entry) == ToLower(TrimSpace(RemoveAll(Text(entry.rt), "\""))) = <<>>

\* C28: in SearchGoogleScholar an entry whose title is empty after
\* normalization is never accepted as the match of a non-empty query title:
\* on a result page all of whose entries have such a title nothing is taken
\* from an entry, the search URL is returned without count and no further
\* request is made.
C28_BlankTitleNeverMatches ==
    (/\ eval.fn = "SearchGoogleScholar/page"
     /\ ToLower(TrimSpace(RemoveAll(eval.arg.title, "\""))) # <<>>
     /\ \A k \in 1..Len(eval.arg.entries) : BlankTitle(eval.arg.entries[k])) =>
        /\ eval.out.requests = <<>>
        /\ eval.out.ret.val.citationPtr = <<>>
        /\ eval.out.ret.val.searchURL =
                SearchURL(eval.arg.title, AuthorsFromTitle(eval.arg.title))

\* the indices of the links that read "Cited by" followed by a number
CountLinks(fl) == {k \in 1..Len(fl) : HasCount(<<fl[k]>>)}

\* C29: on a page with several "Cited by N" links FetchCitationsFromScholar
\* returns the count of the first of them in document order.
C29_FirstCitedByWins ==
    (/\ eval.fn = "FetchCitationsFromScholar"
     /\ eval.arg.status = 200
     /\ CountLinks(eval.arg.body.fl) # {}) =>
        LET fl == eval.arg.body.fl
            first == CHOOSE k \in CountLinks(fl) : \A m \in CountLinks(fl) : k <= m
        IN eval.out.val = Atoi(TrimPrefix(fl[first], <<"Cited by", " ">>))

\* C30: when performSearch was called for a query and then for another one
\* before the response of the first had arrived, then once the responses of
\* all calls have arrived, in whatever order, the table and the pagination
\* show the results for the query of the last call.
C30_LatestQueryShown ==
    (/\ Len(ui.calls) >= 2
     /\ ui.pending = {} /\ ~ui.failed) =>
        /\ ui.tbody = Shown("results", ui.calls[Len(ui.calls)])
        /\ ui.pagination = Shown("results", ui.calls[Len(ui.calls)])

====
